---- MODULE Spec2Model ----
(***************************************************************************)
(* Model of horus::anomaly_detection (the Move module of the repository):  *)
(* SystemState, AdminCap and AnomalyResult objects, the entry functions    *)
(* that act on them and the event stream they emit.                        *)
(*                                                                         *)
(* Objects are kept in creation order: systems[i] and caps[i] are the two  *)
(* objects created by the i-th successful initialize call.                 *)
(***************************************************************************)
EXTENDS Integers, Sequences, FiniteSets, TLC

\* ===== Constants of the module =====
ENotAuditor == 1
EInvalidThreshold == 2
ESystemPaused == 4
EInvalidModelVersion == 5
EInvalidRiskScore == 8
EMaxAuditorsReached == 9
ERateLimit == 100
\* sui::vec_map: insert of a key that is present
EKeyAlreadyExists == 0

MAX_AUDITORS == 50
MAX_REQUESTS_PER_WINDOW == 1000
MIN_THRESHOLD == 10
MAX_THRESHOLD == 1000
MAX_RISK_SCORE == 100
ABSOLUTE_LIMIT == 1000000

\* server.js: automatic starts of the AI engine before the supervisor gives up
MAX_RESTART_ATTEMPTS == 5

\* ===== Bounds of the model =====
\* steps of the ledger (successful calls, epoch changes) explored from the
\* state before the first initialize
MaxSteps == 2
\* steps of the ledger explored from the state after a scenario's calls
MaxScenarioSteps == 1
\* initialize calls (SystemState / AdminCap pairs) explored
MaxSystems == 2

\* calls of spawn in one behaviour of the backend
MaxSpawns == 3

\* ===== Inputs =====
\* @0xA, @0xB of the test suite
Address == {10, 11}
\* identities that fill a roster up to its capacity
Filler(n) == 1000 + n
\* @0xC is the non-auditor of the test suite
AuditorInputs == Address \cup {12, Filler(1)}
ThresholdInputs == {MIN_THRESHOLD - 1, MIN_THRESHOLD, MAX_THRESHOLD, MAX_THRESHOLD + 1}
Hashes == {"model_v1", "model_v2"}
\* initialize(admin, initial_threshold, initial_model_hash)
InitializeInputs ==
    {<<10, MIN_THRESHOLD - 1, "model_v1">>, <<10, MIN_THRESHOLD, "model_v1">>,
     <<11, MAX_THRESHOLD, "model_v2">>, <<11, MAX_THRESHOLD + 1, "model_v2">>}
\* review_anomaly(.., reviewer): the admin, an auditor, and @0xC who is neither
ReviewerInputs == Address \cup {12}
TxIds == {"tx_normal_001"}
FeatureInputs == {<<85, 90>>}
RiskScoreInputs == {MAX_RISK_SCORE, MAX_RISK_SCORE + 1}
\* report_anomaly_score(.., model_version, anomaly_score)
ReportInputs == {<<0, 90>>, <<1, MAX_RISK_SCORE + 1>>, <<2, 90>>}

VARIABLES
    systems,    \* Seq of SystemState objects (with their owner)
    caps,       \* Seq of AdminCap objects (with their owner)
    results,    \* Seq of AnomalyResult objects (with their owner)
    events,     \* the event stream, in commit order
    epoch,      \* tx_context::epoch
    last,       \* the latest call: entry function, objects, arguments, outcome
    okCalls,    \* successful calls of the mutating entry functions so far
    budget,     \* steps still explored
    server      \* the backend: its engine child processes, counters and timers

vars == <<systems, caps, results, events, epoch, last, okCalls, budget, server>>

\* the objects and the event stream a transaction reads and writes
World == [systems |-> systems, caps |-> caps, results |-> results, events |-> events]

EmptyWorld == [systems |-> <<>>, caps |-> <<>>, results |-> <<>>, events |-> <<>>]

\* ===== Transaction outcome =====
\* a transaction that runs to its end commits the world it built
Ok(W) == [ok |-> TRUE, code |-> 0, world |-> W]

\* assert!(cond, code) with cond false: the transaction aborts and every
\* effect it had is discarded; W is the world before the call
Abort(W, code) == [ok |-> FALSE, code |-> code, world |-> W]

\* ===== std::vector, sui::vec_map =====
Contains(v, e) == \E k \in 1..Len(v) : v[k] = e

\* vector::index_of: the first position holding e
IndexOf(v, e) == CHOOSE k \in 1..Len(v) : v[k] = e /\ \A j \in 1..(k - 1) : v[j] # e

\* vector::remove: removes position k, shifting the later elements down
Remove(v, k) == [j \in 1..(Len(v) - 1) |-> IF j < k THEN v[j] ELSE v[j + 1]]

VecMapContains(m, key) == \E k \in 1..Len(m) : m[k].key = key

VecMapGet(m, key) == m[CHOOSE k \in 1..Len(m) : m[k].key = key].value

VecMapInsert(m, key, value) == Append(m, [key |-> key, value |-> value])

\* ===== System Initialization =====

\* initialize with a strict lower comparison: MIN_THRESHOLD itself is refused
initialize_strict_min(W, admin, initial_threshold, initial_model_hash, ep) ==
    IF ~(initial_threshold > MIN_THRESHOLD /\ initial_threshold <= MAX_THRESHOLD)
    THEN Abort(W, EInvalidThreshold)
    ELSE Ok([systems |-> Append(W.systems, [
                owner |-> admin, admin |-> admin, auditors |-> <<>>,
                anomaly_threshold |-> initial_threshold,
                current_model_version |-> 1,
                model_hashes |-> VecMapInsert(<<>>, 1, initial_model_hash),
                transaction_count |-> 0, anomaly_count |-> 0,
                is_paused |-> FALSE, created_at |-> ep]),
             caps |-> Append(W.caps, [owner |-> admin]),
             results |-> W.results,
             events |-> Append(W.events, [type |-> "SystemInitialized", admin |-> admin,
                   threshold |-> initial_threshold, model_version |-> 1])])

\* initialize that numbers the first model version 0
initialize_version_zero(W, admin, initial_threshold, initial_model_hash, ep) ==
    IF ~(initial_threshold >= MIN_THRESHOLD /\ initial_threshold <= MAX_THRESHOLD)
    THEN Abort(W, EInvalidThreshold)
    ELSE Ok([systems |-> Append(W.systems, [
                owner |-> admin, admin |-> admin, auditors |-> <<>>,
                anomaly_threshold |-> initial_threshold,
                current_model_version |-> 0,
                model_hashes |-> VecMapInsert(<<>>, 0, initial_model_hash),
                transaction_count |-> 0, anomaly_count |-> 0,
                is_paused |-> FALSE, created_at |-> ep]),
             caps |-> Append(W.caps, [owner |-> admin]),
             results |-> W.results,
             events |-> Append(W.events, [type |-> "SystemInitialized", admin |-> admin,
                   threshold |-> initial_threshold, model_version |-> 0])])

initialize(W, admin, initial_threshold, initial_model_hash, ep) ==
    IF ~(initial_threshold >= MIN_THRESHOLD /\ initial_threshold <= MAX_THRESHOLD)
    THEN Abort(W, EInvalidThreshold)
    ELSE
        LET system_state == [
                owner |-> admin,
                admin |-> admin,
                auditors |-> <<>>,
                anomaly_threshold |-> initial_threshold,
                current_model_version |-> 1,
                model_hashes |-> VecMapInsert(<<>>, 1, initial_model_hash),
                transaction_count |-> 0,
                anomaly_count |-> 0,
                is_paused |-> FALSE,
                created_at |-> ep]
            admin_cap == [owner |-> admin]
            ev == [type |-> "SystemInitialized", admin |-> admin,
                   threshold |-> initial_threshold, model_version |-> 1]
        IN Ok([systems |-> Append(W.systems, system_state),
               caps |-> Append(W.caps, admin_cap),
               results |-> W.results,
               events |-> Append(W.events, ev)])

\* ===== Internal Functions =====

\* check_rate_limit whose assert admits the absolute limit itself
check_rate_limit_inclusive(system) ==
    IF system.transaction_count > 0
       /\ (system.transaction_count % MAX_REQUESTS_PER_WINDOW) = 0
    THEN system.transaction_count <= ABSOLUTE_LIMIT
    ELSE TRUE

\* TRUE when check_rate_limit returns, FALSE when its assert aborts
check_rate_limit(system) ==
    IF system.transaction_count > 0
       /\ (system.transaction_count % MAX_REQUESTS_PER_WINDOW) = 0
    THEN system.transaction_count < ABSOLUTE_LIMIT
    ELSE TRUE

\* calculate_risk_level with the critical tier starting at its boundary
calculate_risk_level_inclusive(anomaly_score, threshold) ==
    IF anomaly_score >= threshold + (threshold \div 2) THEN 3
    ELSE IF anomaly_score > threshold THEN 2
    ELSE IF anomaly_score > threshold \div 2 THEN 1
    ELSE 0

calculate_risk_level(anomaly_score, threshold) ==
    IF anomaly_score > threshold + (threshold \div 2) THEN 3
    ELSE IF anomaly_score > threshold THEN 2
    ELSE IF anomaly_score > threshold \div 2 THEN 1
    ELSE 0

\* ===== Core Functions =====

\* record_transaction that also counts the transaction as an anomaly
record_transaction_counts_anomaly(W, i, transaction_id, risk_score, ep) ==
    LET system == W.systems[i] IN
    IF system.is_paused THEN Abort(W, ESystemPaused)
    ELSE IF ~(risk_score <= MAX_RISK_SCORE) THEN Abort(W, EInvalidRiskScore)
    ELSE IF ~check_rate_limit(system) THEN Abort(W, ERateLimit)
    ELSE
        LET ev == [type |-> "TransactionRecorded", transaction_id |-> "dummy_tx_id",
                   risk_score |-> risk_score, timestamp |-> ep]
        IN Ok([W EXCEPT !.systems[i].transaction_count = @ + 1,
                        !.systems[i].anomaly_count = @ + 1,
                        !.events = Append(@, ev)])

\* record_transaction that validates the risk score before the pause flag
record_transaction_score_first(W, i, transaction_id, risk_score, ep) ==
    LET system == W.systems[i] IN
    IF ~(risk_score <= MAX_RISK_SCORE) THEN Abort(W, EInvalidRiskScore)
    ELSE IF system.is_paused THEN Abort(W, ESystemPaused)
    ELSE IF ~check_rate_limit(system) THEN Abort(W, ERateLimit)
    ELSE
        LET ev == [type |-> "TransactionRecorded", transaction_id |-> "dummy_tx_id",
                   risk_score |-> risk_score, timestamp |-> ep]
        IN Ok([W EXCEPT !.systems[i].transaction_count = @ + 1,
                        !.events = Append(@, ev)])

record_transaction(W, i, transaction_id, risk_score, ep) ==
    LET system == W.systems[i] IN
    IF system.is_paused THEN Abort(W, ESystemPaused)
    ELSE IF ~(risk_score <= MAX_RISK_SCORE) THEN Abort(W, EInvalidRiskScore)
    ELSE IF ~check_rate_limit(system) THEN Abort(W, ERateLimit)
    ELSE
        LET ev == [type |-> "TransactionRecorded", transaction_id |-> "dummy_tx_id",
                   risk_score |-> risk_score, timestamp |-> ep]
        IN Ok([W EXCEPT !.systems[i].transaction_count = @ + 1,
                        !.events = Append(@, ev)])

\* report_anomaly_score that emits no event
report_anomaly_score_silent(W, i, transaction_id, features, model_version, anomaly_score, ep) ==
    LET system == W.systems[i] IN
    IF system.is_paused THEN Abort(W, ESystemPaused)
    ELSE IF ~(model_version <= system.current_model_version)
    THEN Abort(W, EInvalidModelVersion)
    ELSE
        LET risk_level == calculate_risk_level(anomaly_score, system.anomaly_threshold)
            anomaly_result == [
                owner |-> system.admin,
                transaction_id |-> transaction_id,
                features |-> features,
                model_version |-> model_version,
                anomaly_score |-> anomaly_score,
                risk_level |-> risk_level,
                timestamp |-> ep,
                reviewed |-> FALSE,
                reviewed_by |-> <<>>]
        IN Ok([W EXCEPT !.systems[i].anomaly_count = @ + 1,
                        !.results = Append(@, anomaly_result)])

\* report_anomaly_score whose event carries the current model version
report_anomaly_score_event_current_version(W, i, transaction_id, features, model_version, anomaly_score, ep) ==
    LET system == W.systems[i] IN
    IF system.is_paused THEN Abort(W, ESystemPaused)
    ELSE IF ~(model_version <= system.current_model_version)
    THEN Abort(W, EInvalidModelVersion)
    ELSE
        LET risk_level == calculate_risk_level(anomaly_score, system.anomaly_threshold)
            anomaly_result == [
                owner |-> system.admin,
                transaction_id |-> transaction_id,
                features |-> features,
                model_version |-> model_version,
                anomaly_score |-> anomaly_score,
                risk_level |-> risk_level,
                timestamp |-> ep,
                reviewed |-> FALSE,
                reviewed_by |-> <<>>]
            ev == [type |-> "AnomalyDetected", transaction_id |-> transaction_id,
                   anomaly_score |-> anomaly_score, risk_level |-> risk_level,
                   model_version |-> system.current_model_version]
        IN Ok([W EXCEPT !.systems[i].anomaly_count = @ + 1,
                        !.results = Append(@, anomaly_result),
                        !.events = Append(@, ev)])

\* report_anomaly_score that hands the result to the owner of the SystemState
report_anomaly_score_to_owner(W, i, transaction_id, features, model_version, anomaly_score, ep) ==
    LET system == W.systems[i] IN
    IF system.is_paused THEN Abort(W, ESystemPaused)
    ELSE IF ~(model_version <= system.current_model_version)
    THEN Abort(W, EInvalidModelVersion)
    ELSE
        LET risk_level == calculate_risk_level(anomaly_score, system.anomaly_threshold)
            anomaly_result == [
                owner |-> system.owner,
                transaction_id |-> transaction_id,
                features |-> features,
                model_version |-> model_version,
                anomaly_score |-> anomaly_score,
                risk_level |-> risk_level,
                timestamp |-> ep,
                reviewed |-> FALSE,
                reviewed_by |-> <<>>]
            ev == [type |-> "AnomalyDetected", transaction_id |-> transaction_id,
                   anomaly_score |-> anomaly_score, risk_level |-> risk_level,
                   model_version |-> model_version]
        IN Ok([W EXCEPT !.systems[i].anomaly_count = @ + 1,
                        !.results = Append(@, anomaly_result),
                        !.events = Append(@, ev)])

\* report_anomaly_score that also counts the report as a transaction
report_anomaly_score_counts_transaction(W, i, transaction_id, features, model_version, anomaly_score, ep) ==
    LET system == W.systems[i] IN
    IF system.is_paused THEN Abort(W, ESystemPaused)
    ELSE IF ~(model_version <= system.current_model_version)
    THEN Abort(W, EInvalidModelVersion)
    ELSE
        LET risk_level == calculate_risk_level(anomaly_score, system.anomaly_threshold)
            anomaly_result == [
                owner |-> system.admin,
                transaction_id |-> transaction_id,
                features |-> features,
                model_version |-> model_version,
                anomaly_score |-> anomaly_score,
                risk_level |-> risk_level,
                timestamp |-> ep,
                reviewed |-> FALSE,
                reviewed_by |-> <<>>]
            ev == [type |-> "AnomalyDetected", transaction_id |-> transaction_id,
                   anomaly_score |-> anomaly_score, risk_level |-> risk_level,
                   model_version |-> model_version]
        IN Ok([W EXCEPT !.systems[i].anomaly_count = @ + 1,
                        !.systems[i].transaction_count = @ + 1,
                        !.results = Append(@, anomaly_result),
                        !.events = Append(@, ev)])

\* report_anomaly_score that refuses the current model version itself
report_anomaly_score_strict_version(W, i, transaction_id, features, model_version, anomaly_score, ep) ==
    LET system == W.systems[i] IN
    IF system.is_paused THEN Abort(W, ESystemPaused)
    ELSE IF ~(model_version < system.current_model_version)
    THEN Abort(W, EInvalidModelVersion)
    ELSE
        LET risk_level == calculate_risk_level(anomaly_score, system.anomaly_threshold)
            anomaly_result == [
                owner |-> system.admin,
                transaction_id |-> transaction_id,
                features |-> features,
                model_version |-> model_version,
                anomaly_score |-> anomaly_score,
                risk_level |-> risk_level,
                timestamp |-> ep,
                reviewed |-> FALSE,
                reviewed_by |-> <<>>]
            ev == [type |-> "AnomalyDetected", transaction_id |-> transaction_id,
                   anomaly_score |-> anomaly_score, risk_level |-> risk_level,
                   model_version |-> model_version]
        IN Ok([W EXCEPT !.systems[i].anomaly_count = @ + 1,
                        !.results = Append(@, anomaly_result),
                        !.events = Append(@, ev)])

report_anomaly_score(W, i, transaction_id, features, model_version, anomaly_score, ep) ==
    LET system == W.systems[i] IN
    IF system.is_paused THEN Abort(W, ESystemPaused)
    ELSE IF ~(model_version <= system.current_model_version)
    THEN Abort(W, EInvalidModelVersion)
    ELSE
        LET risk_level == calculate_risk_level(anomaly_score, system.anomaly_threshold)
            anomaly_result == [
                owner |-> system.admin,
                transaction_id |-> transaction_id,
                features |-> features,
                model_version |-> model_version,
                anomaly_score |-> anomaly_score,
                risk_level |-> risk_level,
                timestamp |-> ep,
                reviewed |-> FALSE,
                reviewed_by |-> <<>>]
            ev == [type |-> "AnomalyDetected", transaction_id |-> transaction_id,
                   anomaly_score |-> anomaly_score, risk_level |-> risk_level,
                   model_version |-> model_version]
        IN Ok([W EXCEPT !.systems[i].anomaly_count = @ + 1,
                        !.results = Append(@, anomaly_result),
                        !.events = Append(@, ev)])

\* ===== Access Control Functions =====

\* add_auditor that admits one identity more than MAX_AUDITORS
add_auditor_off_by_one(W, i, admin_cap, auditor, sender) ==
    LET system == W.systems[i] IN
    IF system.is_paused THEN Abort(W, ESystemPaused)
    ELSE IF ~(Len(system.auditors) <= MAX_AUDITORS) THEN Abort(W, EMaxAuditorsReached)
    ELSE IF Contains(system.auditors, auditor) THEN Abort(W, EMaxAuditorsReached)
    ELSE
        LET ev == [type |-> "AuditorAdded", auditor |-> auditor, added_by |-> sender]
        IN Ok([W EXCEPT !.systems[i].auditors = Append(@, auditor),
                        !.events = Append(@, ev)])

\* add_auditor without its duplicate check
add_auditor_no_duplicate_check(W, i, admin_cap, auditor, sender) ==
    LET system == W.systems[i] IN
    IF system.is_paused THEN Abort(W, ESystemPaused)
    ELSE IF ~(Len(system.auditors) < MAX_AUDITORS) THEN Abort(W, EMaxAuditorsReached)
    ELSE
        LET ev == [type |-> "AuditorAdded", auditor |-> auditor, added_by |-> sender]
        IN Ok([W EXCEPT !.systems[i].auditors = Append(@, auditor),
                        !.events = Append(@, ev)])

\* add_auditor that pushes before its duplicate check on a host that keeps
\* the effects of a failed call
add_auditor_push_first(W, i, admin_cap, auditor, sender) ==
    LET system == W.systems[i] IN
    IF system.is_paused THEN Abort(W, ESystemPaused)
    ELSE IF ~(Len(system.auditors) < MAX_AUDITORS) THEN Abort(W, EMaxAuditorsReached)
    ELSE
        LET V == [W EXCEPT !.systems[i].auditors = Append(@, auditor)]
            ev == [type |-> "AuditorAdded", auditor |-> auditor, added_by |-> sender]
        IN IF Contains(system.auditors, auditor)
           THEN [ok |-> FALSE, code |-> EMaxAuditorsReached, world |-> V]
           ELSE Ok([V EXCEPT !.events = Append(@, ev)])

add_auditor(W, i, admin_cap, auditor, sender) ==
    LET system == W.systems[i] IN
    IF system.is_paused THEN Abort(W, ESystemPaused)
    ELSE IF ~(Len(system.auditors) < MAX_AUDITORS) THEN Abort(W, EMaxAuditorsReached)
    ELSE IF Contains(system.auditors, auditor) THEN Abort(W, EMaxAuditorsReached)
    ELSE
        LET ev == [type |-> "AuditorAdded", auditor |-> auditor, added_by |-> sender]
        IN Ok([W EXCEPT !.systems[i].auditors = Append(@, auditor),
                        !.events = Append(@, ev)])

\* vector::swap_remove: the last element takes the removed position
SwapRemove(v, k) == [j \in 1..(Len(v) - 1) |-> IF j = k THEN v[Len(v)] ELSE v[j]]

\* remove_auditor with vector::swap_remove in place of vector::remove
remove_auditor_swap(W, i, admin_cap, auditor, sender) ==
    LET system == W.systems[i] IN
    IF system.is_paused THEN Abort(W, ESystemPaused)
    ELSE IF ~Contains(system.auditors, auditor) THEN Abort(W, ENotAuditor)
    ELSE
        LET index == IndexOf(system.auditors, auditor)
            ev == [type |-> "AuditorRemoved", auditor |-> auditor, removed_by |-> sender]
        IN Ok([W EXCEPT !.systems[i].auditors = SwapRemove(@, index),
                        !.events = Append(@, ev)])

remove_auditor(W, i, admin_cap, auditor, sender) ==
    LET system == W.systems[i] IN
    IF system.is_paused THEN Abort(W, ESystemPaused)
    ELSE IF ~Contains(system.auditors, auditor) THEN Abort(W, ENotAuditor)
    ELSE
        LET index == IndexOf(system.auditors, auditor)
            ev == [type |-> "AuditorRemoved", auditor |-> auditor, removed_by |-> sender]
        IN Ok([W EXCEPT !.systems[i].auditors = Remove(@, index),
                        !.events = Append(@, ev)])

\* update_threshold that classifies the existing results again
update_threshold_reclassifies(W, i, admin_cap, new_threshold) ==
    LET system == W.systems[i] IN
    IF system.is_paused THEN Abort(W, ESystemPaused)
    ELSE IF ~(new_threshold >= MIN_THRESHOLD /\ new_threshold <= MAX_THRESHOLD)
    THEN Abort(W, EInvalidThreshold)
    ELSE Ok([W EXCEPT !.systems[i].anomaly_threshold = new_threshold,
                      !.results = [k \in 1..Len(W.results) |->
                          [W.results[k] EXCEPT !.risk_level =
                              calculate_risk_level(W.results[k].anomaly_score,
                                                   new_threshold)]]])

\* update_threshold without the upper limit
update_threshold_no_max(W, i, admin_cap, new_threshold) ==
    LET system == W.systems[i] IN
    IF system.is_paused THEN Abort(W, ESystemPaused)
    ELSE IF ~(new_threshold >= MIN_THRESHOLD)
    THEN Abort(W, EInvalidThreshold)
    ELSE Ok([W EXCEPT !.systems[i].anomaly_threshold = new_threshold])

update_threshold(W, i, admin_cap, new_threshold) ==
    LET system == W.systems[i] IN
    IF system.is_paused THEN Abort(W, ESystemPaused)
    ELSE IF ~(new_threshold >= MIN_THRESHOLD /\ new_threshold <= MAX_THRESHOLD)
    THEN Abort(W, EInvalidThreshold)
    ELSE Ok([W EXCEPT !.systems[i].anomaly_threshold = new_threshold])

\* update_model without its pause check
update_model_no_pause_check(W, i, admin_cap, new_model_hash) ==
    LET system == W.systems[i]
        new_version == system.current_model_version + 1
    IN Ok([W EXCEPT !.systems[i].current_model_version = new_version,
                    !.systems[i].model_hashes = VecMapInsert(@, new_version, new_model_hash)])

\* update_model that keeps only the newest hash
update_model_drop_history(W, i, admin_cap, new_model_hash) ==
    LET system == W.systems[i] IN
    IF system.is_paused THEN Abort(W, ESystemPaused)
    ELSE
        LET new_version == system.current_model_version + 1
        IN Ok([W EXCEPT !.systems[i].current_model_version = new_version,
                        !.systems[i].model_hashes = VecMapInsert(<<>>, new_version, new_model_hash)])

\* update_model that registers the hash but leaves the current version
update_model_stale_version(W, i, admin_cap, new_model_hash) ==
    LET system == W.systems[i] IN
    IF system.is_paused THEN Abort(W, ESystemPaused)
    ELSE
        LET new_version == system.current_model_version + 1
        IN IF VecMapContains(system.model_hashes, new_version)
           THEN Abort(W, EKeyAlreadyExists)
           ELSE Ok([W EXCEPT !.systems[i].model_hashes =
                                 VecMapInsert(@, new_version, new_model_hash)])

update_model(W, i, admin_cap, new_model_hash) ==
    LET system == W.systems[i] IN
    IF system.is_paused THEN Abort(W, ESystemPaused)
    ELSE
        LET new_version == system.current_model_version + 1
        IN IF VecMapContains(system.model_hashes, new_version)
           THEN Abort(W, EKeyAlreadyExists)
           ELSE Ok([W EXCEPT !.systems[i].current_model_version = new_version,
                             !.systems[i].model_hashes =
                                 VecMapInsert(@, new_version, new_model_hash)])

\* pause_system that emits no event when the system is paused already
pause_system_silent_when_paused(W, i, admin_cap, sender) ==
    LET ev == [type |-> "SystemPaused", paused_by |-> sender]
    IN IF W.systems[i].is_paused THEN Ok(W)
       ELSE Ok([W EXCEPT !.systems[i].is_paused = TRUE, !.events = Append(@, ev)])

pause_system(W, i, admin_cap, sender) ==
    LET ev == [type |-> "SystemPaused", paused_by |-> sender]
    IN Ok([W EXCEPT !.systems[i].is_paused = TRUE, !.events = Append(@, ev)])

resume_system(W, i, admin_cap, sender) ==
    LET ev == [type |-> "SystemResumed", resumed_by |-> sender]
    IN Ok([W EXCEPT !.systems[i].is_paused = FALSE, !.events = Append(@, ev)])

\* ===== Administrative Functions =====

\* transfer_admin with the pause check of the other privileged functions
transfer_admin_not_when_paused(W, i, admin_cap, new_admin) ==
    IF W.systems[i].is_paused THEN Abort(W, ESystemPaused)
    ELSE Ok([W EXCEPT !.systems[i].admin = new_admin])

\* transfer_admin that also hands the AdminCap to the new admin
transfer_admin_moves_cap(W, i, admin_cap, new_admin) ==
    Ok([W EXCEPT !.systems[i].admin = new_admin,
                 !.caps[admin_cap].owner = new_admin])

transfer_admin(W, i, admin_cap, new_admin) ==
    Ok([W EXCEPT !.systems[i].admin = new_admin])

\* review_anomaly that keeps the reviewer of the first review
review_anomaly_first_only(W, k, reviewer) ==
    IF W.results[k].reviewed THEN Ok(W)
    ELSE Ok([W EXCEPT !.results[k].reviewed = TRUE,
                      !.results[k].reviewed_by = <<reviewer>>])

\* review_anomaly that flips the reviewed flag
review_anomaly_toggle(W, k, reviewer) ==
    Ok([W EXCEPT !.results[k].reviewed = ~@,
                 !.results[k].reviewed_by = <<reviewer>>])

\* review_anomaly that accepts a reviewer only from the roster of the first
\* SystemState
review_anomaly_auditors_only(W, k, reviewer) ==
    IF ~Contains(W.systems[1].auditors, reviewer) THEN Abort(W, ENotAuditor)
    ELSE Ok([W EXCEPT !.results[k].reviewed = TRUE,
                      !.results[k].reviewed_by = <<reviewer>>])

review_anomaly(W, k, reviewer) ==
    Ok([W EXCEPT !.results[k].reviewed = TRUE,
                 !.results[k].reviewed_by = <<reviewer>>])

\* ===== View Functions =====

\* get_system_stats with the two counters exchanged
get_system_stats_swapped(system) ==
    [total_transactions |-> system.anomaly_count,
     total_anomalies |-> system.transaction_count,
     current_threshold |-> system.anomaly_threshold,
     model_version |-> system.current_model_version,
     auditor_count |-> Len(system.auditors)]

get_system_stats(system) ==
    [total_transactions |-> system.transaction_count,
     total_anomalies |-> system.anomaly_count,
     current_threshold |-> system.anomaly_threshold,
     model_version |-> system.current_model_version,
     auditor_count |-> Len(system.auditors)]

\* is_auditor that does not look at the first roster position
is_auditor_skips_first(system, addr) ==
    \E k \in 2..Len(system.auditors) : system.auditors[k] = addr

is_auditor(system, addr) == Contains(system.auditors, addr)

get_auditors(system) == system.auditors

\* vec_map::get aborts when the key is absent
get_current_model(system) ==
    IF VecMapContains(system.model_hashes, system.current_model_version)
    THEN [ok |-> TRUE, version |-> system.current_model_version,
          hash |-> VecMapGet(system.model_hashes, system.current_model_version)]
    ELSE [ok |-> FALSE, version |-> system.current_model_version, hash |-> ""]

is_system_operational(system) == ~system.is_paused

\* ===== Initial states =====

NoCall == [op |-> "none", sys |-> 0, cap |-> 0, args |-> <<>>, ok |-> TRUE, code |-> 0]

\* the backend before server.js is loaded
ServerOff ==
    [pythonProcess |-> [state |-> "undefined", killed |-> FALSE],
     orphans |-> [alive |-> 0, error |-> 0, close0 |-> 0, close1 |-> 0],
     aiEngineRestartCount |-> 0,
     restartTimers |-> 0,
     initTimers |-> 0,
     spawnCalls |-> 0,
     handler |-> "none",
     request |-> [kind |-> "none", transaction_id |-> "none"],
     response |-> [code |-> 0, status |-> "none", ai_engine |-> "none", transaction_id |-> "none"],
     written |-> <<>>]

InitFrom(W, n, steps) ==
    /\ server = ServerOff
    /\ systems = W.systems
    /\ caps = W.caps
    /\ results = W.results
    /\ events = W.events
    /\ okCalls = n
    /\ epoch = 0
    /\ last = NoCall
    /\ budget = steps

\* the world after n further add_auditor calls on system i by its owner
RECURSIVE AddFillers(_, _, _)
AddFillers(W, i, n) ==
    IF n = 0 THEN W
    ELSE LET V == AddFillers(W, i, n - 1)
         IN add_auditor(V, i, i, Filler(n), V.systems[i].owner).world

\* the world after the calls of test_complete_workflow
WorkflowWorld ==
    LET W1 == initialize(EmptyWorld, 10, 75, "model_v1", 0).world
        W2 == add_auditor(W1, 1, 1, 11, 10).world
        W3 == record_transaction(W2, 1, "tx_normal_001", 25, 0).world
        W4 == report_anomaly_score(W3, 1, "tx_suspicious_001", <<85, 90, 95, 100>>, 1, 90, 0).world
    IN update_threshold(W4, 1, 1, 85).world

\* the same, then add_auditor calls up to one short of the roster's capacity
ScenarioWorld == AddFillers(WorkflowWorld, 1, MAX_AUDITORS - 2)

\* the same, then pause_system
PausedWorld == pause_system(ScenarioWorld, 1, 1, 10).world

\* test_complete_workflow, then a second initialize for the same admin
TwoSystemsWorld == initialize(WorkflowWorld, 10, MAX_THRESHOLD, "model_v2", 0).world

\* after the calls of the two-deployment scenario
InitTwoSystems == InitFrom(TwoSystemsWorld, 5 + 1, MaxScenarioSteps)

\* before the first initialize, or after the calls of a scenario
Init ==
    \/ InitFrom(EmptyWorld, 0, MaxSteps)
    \/ InitFrom(ScenarioWorld, 5 + (MAX_AUDITORS - 2), MaxScenarioSteps)
    \/ InitFrom(PausedWorld, 5 + (MAX_AUDITORS - 2) + 1, MaxScenarioSteps)

\* ===== Transactions =====

\* the transaction's outcome r becomes the next state; a call that would
\* succeed is explored only while the budget lasts
Commit(op, i, c, args, r) ==
    /\ r.ok => budget > 0
    /\ systems' = r.world.systems
    /\ caps' = r.world.caps
    /\ results' = r.world.results
    /\ events' = r.world.events
    /\ last' = [op |-> op, sys |-> i, cap |-> c, args |-> args, ok |-> r.ok, code |-> r.code]
    /\ okCalls' = IF r.ok THEN okCalls + 1 ELSE okCalls
    /\ budget' = IF r.ok THEN budget - 1 ELSE budget
    /\ UNCHANGED <<epoch, server>>

\* an owned object is usable only in a transaction of its owner: the sender
\* of a call on systems[i] with caps[c] owns both
CanUse(i, c) == systems[i].owner = caps[c].owner

Sender(i) == systems[i].owner

Initialize(admin, t, h) ==
    /\ initialize(World, admin, t, h, epoch).ok => Len(systems) < MaxSystems
    /\ Commit("initialize", Len(systems) + 1, Len(caps) + 1, <<admin, t, h>>,
              initialize(World, admin, t, h, epoch))

RecordTransaction(i, tid, rs) ==
    Commit("record_transaction", i, 0, <<tid, rs>>,
           record_transaction(World, i, tid, rs, epoch))

ReportAnomalyScore(i, tid, f, mv, sc) ==
    Commit("report_anomaly_score", i, 0, <<tid, f, mv, sc>>,
           report_anomaly_score(World, i, tid, f, mv, sc, epoch))

AddAuditor(i, c, a) ==
    /\ CanUse(i, c)
    /\ Commit("add_auditor", i, c, <<a>>, add_auditor(World, i, c, a, Sender(i)))

RemoveAuditor(i, c, a) ==
    /\ CanUse(i, c)
    /\ Commit("remove_auditor", i, c, <<a>>, remove_auditor(World, i, c, a, Sender(i)))

UpdateThreshold(i, c, t) ==
    /\ CanUse(i, c)
    /\ Commit("update_threshold", i, c, <<t>>, update_threshold(World, i, c, t))

UpdateModel(i, c, h) ==
    /\ CanUse(i, c)
    /\ Commit("update_model", i, c, <<h>>, update_model(World, i, c, h))

PauseSystem(i, c) ==
    /\ CanUse(i, c)
    /\ Commit("pause_system", i, c, <<>>, pause_system(World, i, c, Sender(i)))

ResumeSystem(i, c) ==
    /\ CanUse(i, c)
    /\ Commit("resume_system", i, c, <<>>, resume_system(World, i, c, Sender(i)))

TransferAdmin(i, c, a) ==
    /\ CanUse(i, c)
    /\ Commit("transfer_admin", i, c, <<a>>, transfer_admin(World, i, c, a))

\* review_anomaly is not one of the calls okCalls counts
ReviewAnomaly(k, reviewer) ==
    LET r == review_anomaly(World, k, reviewer) IN
    /\ systems' = r.world.systems
    /\ caps' = r.world.caps
    /\ results' = r.world.results
    /\ events' = r.world.events
    /\ last' = [op |-> "review_anomaly", sys |-> 0, cap |-> 0, args |-> <<k, reviewer>>,
                ok |-> r.ok, code |-> r.code]
    /\ UNCHANGED <<epoch, okCalls, budget, server>>

\* the ledger moves to its next epoch
AdvanceEpoch ==
    /\ budget > 0
    /\ epoch' = epoch + 1
    /\ budget' = budget - 1
    /\ UNCHANGED <<systems, caps, results, events, last, okCalls, server>>

Systems == 1..Len(systems)
Caps == 1..Len(caps)
Results == 1..Len(results)

Next ==
    \/ \E in \in InitializeInputs : Initialize(in[1], in[2], in[3])
    \/ \E i \in Systems, tid \in TxIds, rs \in RiskScoreInputs : RecordTransaction(i, tid, rs)
    \/ \E i \in Systems, tid \in TxIds, f \in FeatureInputs, in \in ReportInputs :
          ReportAnomalyScore(i, tid, f, in[1], in[2])
    \/ \E i \in Systems, c \in Caps, a \in AuditorInputs : AddAuditor(i, c, a)
    \/ \E i \in Systems, c \in Caps, a \in AuditorInputs : RemoveAuditor(i, c, a)
    \/ \E i \in Systems, c \in Caps, t \in ThresholdInputs : UpdateThreshold(i, c, t)
    \/ \E i \in Systems, c \in Caps, h \in Hashes : UpdateModel(i, c, h)
    \/ \E i \in Systems, c \in Caps : PauseSystem(i, c)
    \/ \E i \in Systems, c \in Caps : ResumeSystem(i, c)
    \/ \E i \in Systems, c \in Caps, a \in Address : TransferAdmin(i, c, a)
    \/ \E k \in Results, reviewer \in Address : ReviewAnomaly(k, reviewer)
    \/ AdvanceEpoch

Spec == Init /\ [][Next]_vars

\* the same transactions, from a state with two deployments of one admin
SpecTwoSystems == InitTwoSystems /\ [][Next]_vars

\* ===== After a transfer of the admin field =====

\* test_complete_workflow, then transfer_admin to @0xB
TransferredWorld == transfer_admin(WorkflowWorld, 1, 1, 11).world

InitTransferred == InitFrom(TransferredWorld, 5 + 1, MaxScenarioSteps)

\* the same transactions, from a state whose admin field names @0xB while
\* @0xA holds the SystemState and the AdminCap
SpecTransferred == InitTransferred /\ [][Next]_vars

\* ===== Reviews by any identity =====

\* test_complete_workflow, then pause_system
PausedWorkflowWorld == pause_system(WorkflowWorld, 1, 1, 10).world

InitReview ==
    \/ InitFrom(WorkflowWorld, 5, MaxScenarioSteps)
    \/ InitFrom(PausedWorkflowWorld, 5 + 1, MaxScenarioSteps)

\* the same transactions, and review_anomaly with every reviewer identity
NextReview ==
    \/ Next
    \/ \E k \in Results, reviewer \in ReviewerInputs : ReviewAnomaly(k, reviewer)

SpecReview == InitReview /\ [][NextReview]_vars

\* ===== Reviews of a reviewed result =====

\* test_complete_workflow, then review_anomaly of its result by @0xA
ReviewedWorld == review_anomaly(WorkflowWorld, 1, 10).world

InitReviewed == InitFrom(ReviewedWorld, 5, MaxScenarioSteps)

SpecReviewed == InitReviewed /\ [][NextReview]_vars

\* ===== The classifier over its whole input range =====

\* after initialize with any threshold the module accepts
InitClassify ==
    \E t \in MIN_THRESHOLD..MAX_THRESHOLD :
        InitFrom(initialize(EmptyWorld, 10, t, "model_v1", 0).world, 1, 1)

\* one report_anomaly_score call with any score of 0..100
NextClassify ==
    /\ budget > 0
    /\ \E sc \in 0..MAX_RISK_SCORE :
          ReportAnomalyScore(1, "tx_normal_001", <<85, 90>>, 1, sc)

SpecClassify == InitClassify /\ [][NextClassify]_vars

\* ===== The transaction counter near its windows and its limit =====

\* transaction counts around the first window and around the absolute limit
CeilingCounts ==
    {0, MAX_REQUESTS_PER_WINDOW - 1, MAX_REQUESTS_PER_WINDOW,
     ABSOLUTE_LIMIT - MAX_REQUESTS_PER_WINDOW, ABSOLUTE_LIMIT - 1, ABSOLUTE_LIMIT}

\* the world after initialize and n successful record_transaction calls; the
\* events of those n calls are left out of the stream, which no function reads
CeilingWorld(n) ==
    LET W == initialize(EmptyWorld, 10, 75, "model_v1", 0).world
    IN [W EXCEPT !.systems[1].transaction_count = n]

InitCeiling == \E n \in CeilingCounts : InitFrom(CeilingWorld(n), 1 + n, MaxScenarioSteps)

SpecCeiling == InitCeiling /\ [][Next]_vars

\* ===== The backend server and its AI engine supervisor =====

\* A child process is "alive" (spawned, running), "error" (the spawn failed
\* and its 'error' event is pending), "close0" or "close1" (it has died and
\* its 'close' event is pending, with exit code 0, or with another code or a
\* signal), or "dead" (nothing pending). pythonProcess is the child the
\* variable of that name refers to, "undefined" before the first spawn
\* returns; orphans counts the children it no longer refers to.

NoRequest == [kind |-> "none", transaction_id |-> "none"]
NoResponse == [code |-> 0, status |-> "none", ai_engine |-> "none", transaction_id |-> "none"]

\* the state as a timer or a child's event handler finds it: the reply of the
\* latest request has been sent
Quiet(S) ==
    [S EXCEPT !.handler = "none", !.request = NoRequest,
              !.response = NoResponse, !.written = <<>>]

\* req.body.transaction_data: absent, null, the empty string, an object with a
\* transaction_id, an object without one
TransactionData ==
    {[kind |-> "undefined", transaction_id |-> "none"],
     [kind |-> "null", transaction_id |-> "none"],
     [kind |-> "empty_string", transaction_id |-> "none"],
     [kind |-> "object", transaction_id |-> "tx_1"],
     [kind |-> "object", transaction_id |-> "undefined"]}

\* JavaScript's truthiness of a JSON value
Truthy(v) == v.kind \notin {"undefined", "null", "empty_string"}

\* pythonProcess && !pythonProcess.killed
HasProcess(S) == S.pythonProcess.state # "undefined" /\ ~S.pythonProcess.killed

\* the child pythonProcess referred to, once the variable is assigned again
Orphaned(o, p) ==
    IF p.state \in {"alive", "error", "close0", "close1"}
    THEN [o EXCEPT ![p.state] = @ + 1]
    ELSE o

\* spawn returned a child in state st: the handlers are attached and the
\* timer of the init message is set
Spawned(S, st) ==
    [S EXCEPT !.pythonProcess = [state |-> st, killed |-> FALSE],
              !.orphans = Orphaned(S.orphans, S.pythonProcess),
              !.initTimers = @ + 1,
              !.spawnCalls = @ + 1]

\* the states startAIEngine can leave: spawn returns a running child, or a
\* child whose start failed, or throws
startAIEngine(S) ==
    IF S.aiEngineRestartCount >= MAX_RESTART_ATTEMPTS THEN {S}
    ELSE {Spawned(S, "alive"), Spawned(S, "error"),
          [S EXCEPT !.aiEngineRestartCount = @ + 1,
                    !.restartTimers = @ + 1,
                    !.spawnCalls = @ + 1]}

\* the children with an event or an exit ahead: "current" is pythonProcess
Children == {"current", "orphan"}

\* child who is in state st
InState(S, who, st) ==
    IF who = "current" THEN S.pythonProcess.state = st ELSE S.orphans[st] > 0

\* child who moves from state from to state to
Move(S, who, from, to) ==
    IF who = "current" THEN [S EXCEPT !.pythonProcess.state = to]
    ELSE IF to = "dead" THEN [S EXCEPT !.orphans[from] = @ - 1]
    ELSE [S EXCEPT !.orphans[from] = @ - 1, !.orphans[to] = @ + 1]

\* pythonProcess.on('close')
on_close(S, who, code) ==
    LET from == IF code = 0 THEN "close0" ELSE "close1"
        T == Move(S, who, from, "dead")
    IN IF code # 0
       THEN [T EXCEPT !.aiEngineRestartCount = @ + 1, !.restartTimers = @ + 1]
       ELSE T

\* pythonProcess.on('error'); closes: a 'close' event follows
on_error(S, who, closes) ==
    LET T == Move(S, who, "error", IF closes THEN "close1" ELSE "dead")
    IN [T EXCEPT !.aiEngineRestartCount = @ + 1, !.restartTimers = @ + 1]

\* the timer of the init message
init_timer(S) ==
    LET T == [S EXCEPT !.initTimers = @ - 1, !.handler = "init_timer"]
    IN IF HasProcess(S) THEN [T EXCEPT !.written = <<"init">>] ELSE T

AiEngineStatus(S) == IF HasProcess(S) THEN "running" ELSE "stopped"

\* GET /health
health(S) ==
    LET aiStatus == AiEngineStatus(S)
        systemStatus == IF aiStatus = "running" THEN "healthy" ELSE "degraded"
    IN [S EXCEPT !.handler = "/health", !.request = NoRequest, !.written = <<>>,
                 !.response = [code |-> 200, status |-> systemStatus,
                               ai_engine |-> aiStatus, transaction_id |-> "none"]]

\* GET /ai/status
ai_status(S) ==
    [S EXCEPT !.handler = "/ai/status", !.request = NoRequest, !.written = <<>>,
              !.response = [code |-> 200, status |-> AiEngineStatus(S),
                            ai_engine |-> AiEngineStatus(S), transaction_id |-> "none"]]

\* POST /analyze/transaction that looks at the engine before the body
analyze_transaction_engine_first(S, transaction_data) ==
    LET T == [S EXCEPT !.handler = "/analyze/transaction", !.request = transaction_data,
                       !.written = <<>>]
    IN IF ~HasProcess(S)
       THEN [T EXCEPT !.response = [code |-> 503, status |-> "service_unavailable",
                                    ai_engine |-> "none", transaction_id |-> "none"]]
       ELSE IF ~Truthy(transaction_data)
       THEN [T EXCEPT !.response = [code |-> 400, status |-> "none",
                                    ai_engine |-> "none", transaction_id |-> "none"]]
       ELSE [T EXCEPT !.written = <<"transaction">>,
                      !.response = [code |-> 200, status |-> "analysis_started",
                                    ai_engine |-> "none",
                                    transaction_id |->
                                        IF transaction_data.transaction_id = "undefined"
                                        THEN "unknown"
                                        ELSE transaction_data.transaction_id]]

\* POST /analyze/transaction; written holds the calls of stdin.write
analyze_transaction(S, transaction_data) ==
    LET T == [S EXCEPT !.handler = "/analyze/transaction", !.request = transaction_data,
                       !.written = <<>>]
    IN IF ~Truthy(transaction_data)
       THEN [T EXCEPT !.response = [code |-> 400, status |-> "none",
                                    ai_engine |-> "none", transaction_id |-> "none"]]
       ELSE IF ~HasProcess(S)
       THEN [T EXCEPT !.response = [code |-> 503, status |-> "service_unavailable",
                                    ai_engine |-> "none", transaction_id |-> "none"]]
       ELSE [T EXCEPT !.written = <<"transaction">>,
                      !.response = [code |-> 200, status |-> "analysis_started",
                                    ai_engine |-> "none",
                                    transaction_id |->
                                        IF transaction_data.transaction_id = "undefined"
                                        THEN "unknown"
                                        ELSE transaction_data.transaction_id]]

\* POST /ai/test; its reply is sent by a timer that reads no state
ai_test(S) ==
    LET T == [S EXCEPT !.handler = "/ai/test", !.request = NoRequest, !.written = <<>>]
    IN IF ~HasProcess(S)
       THEN [T EXCEPT !.response = [code |-> 503, status |-> "service_unavailable",
                                    ai_engine |-> "none", transaction_id |-> "none"]]
       ELSE [T EXCEPT !.written = <<"transaction">>,
                      !.response = [code |-> 200, status |-> "test_sent",
                                    ai_engine |-> "none", transaction_id |-> "none"]]

\* pythonProcess.kill('SIGTERM') on a running child: the child is marked
\* killed and dies, with exit code 0 if it handles the signal (code = 0)
kill(S, code) ==
    IF S.pythonProcess.state = "alive"
    THEN [S EXCEPT !.pythonProcess =
               [state |-> IF code = 0 THEN "close0" ELSE "close1", killed |-> TRUE]]
    ELSE S

\* POST /ai/restart: the states it can leave
ai_restart(S, code) ==
    LET K == IF HasProcess(S) THEN kill(S, code) ELSE S
        R == [K EXCEPT !.aiEngineRestartCount = 0, !.spawnCalls = 0]
    IN {[T EXCEPT !.handler = "/ai/restart", !.request = NoRequest, !.written = <<>>,
                  !.response = [code |-> 200, status |-> "restart_initiated",
                                ai_engine |-> "none", transaction_id |-> "none"]] :
            T \in startAIEngine(R)}

\* server.js is loaded: the variables are declared and startAIEngine is called
InitServer ==
    /\ systems = <<>>
    /\ caps = <<>>
    /\ results = <<>>
    /\ events = <<>>
    /\ okCalls = 0
    /\ epoch = 0
    /\ last = NoCall
    /\ budget = MaxSpawns - 1
    /\ server \in startAIEngine(ServerOff)

Ledger == <<systems, caps, results, events, epoch, last, okCalls>>

\* a running child exits, with exit code 0 or not
ChildExit(who, code) ==
    /\ InState(server, who, "alive")
    /\ server' = Move(Quiet(server), who, "alive", IF code = 0 THEN "close0" ELSE "close1")
    /\ UNCHANGED <<Ledger, budget>>

ChildError(who, closes) ==
    /\ InState(server, who, "error")
    /\ server' = on_error(Quiet(server), who, closes)
    /\ UNCHANGED <<Ledger, budget>>

ChildClose(who, code) ==
    /\ InState(server, who, IF code = 0 THEN "close0" ELSE "close1")
    /\ server' = on_close(Quiet(server), who, code)
    /\ UNCHANGED <<Ledger, budget>>

\* setTimeout(startAIEngine, ..) comes due; a call that reaches spawn is
\* explored only while the budget lasts
RestartTimer ==
    LET spawns == server.aiEngineRestartCount < MAX_RESTART_ATTEMPTS IN
    /\ server.restartTimers > 0
    /\ spawns => budget > 0
    /\ server' \in startAIEngine([Quiet(server) EXCEPT !.restartTimers = @ - 1])
    /\ budget' = IF spawns THEN budget - 1 ELSE budget
    /\ UNCHANGED Ledger

InitTimer ==
    /\ server.initTimers > 0
    /\ server' = init_timer(Quiet(server))
    /\ UNCHANGED <<Ledger, budget>>

Health ==
    /\ server' = health(server)
    /\ UNCHANGED <<Ledger, budget>>

AiStatus ==
    /\ server' = ai_status(server)
    /\ UNCHANGED <<Ledger, budget>>

AnalyzeTransaction(transaction_data) ==
    /\ server' = analyze_transaction(server, transaction_data)
    /\ UNCHANGED <<Ledger, budget>>

AiTest ==
    /\ server' = ai_test(server)
    /\ UNCHANGED <<Ledger, budget>>

AiRestart(code) ==
    /\ budget > 0
    /\ server' \in ai_restart(Quiet(server), code)
    /\ budget' = budget - 1
    /\ UNCHANGED Ledger

\* exit codes: 0, and 1 for every other code and for death by a signal
ExitCodes == {0, 1}

NextServer ==
    \/ \E who \in Children, code \in ExitCodes : ChildExit(who, code)
    \/ \E who \in Children, closes \in BOOLEAN : ChildError(who, closes)
    \/ \E who \in Children, code \in ExitCodes : ChildClose(who, code)
    \/ RestartTimer
    \/ InitTimer
    \/ Health
    \/ AiStatus
    \/ \E transaction_data \in TransactionData : AnalyzeTransaction(transaction_data)
    \/ AiTest
    \/ \E code \in ExitCodes : AiRestart(code)

SpecServer == InitServer /\ [][NextServer]_vars

\* ===== The supervisor after a restart request =====

\* the first child has closed with a failure, its restart timer is pending,
\* and POST /ai/restart has started the second child
StaleTimerServer ==
    LET booted == Spawned(ServerOff, "alive")
        exited == Move(booted, "current", "alive", "close1")
        closed == on_close(exited, "current", 1)
    IN CHOOSE T \in ai_restart(closed, 1) : T.pythonProcess.state = "alive"

InitStaleTimer ==
    /\ systems = <<>>
    /\ caps = <<>>
    /\ results = <<>>
    /\ events = <<>>
    /\ okCalls = 0
    /\ epoch = 0
    /\ last = NoCall
    /\ budget = 2 * MAX_RESTART_ATTEMPTS
    /\ server = StaleTimerServer

\* the children's events and the timers, with no further request
NextSupervisor ==
    \/ \E who \in Children, code \in ExitCodes : ChildExit(who, code)
    \/ \E who \in Children, closes \in BOOLEAN : ChildError(who, closes)
    \/ \E who \in Children, code \in ExitCodes : ChildClose(who, code)
    \/ RestartTimer
    \/ InitTimer

SpecStaleTimer == InitStaleTimer /\ [][NextSupervisor]_vars

\* ===== Properties =====

\* the step left every object and the event stream as they were
SameWorld ==
    /\ systems' = systems
    /\ caps' = caps
    /\ results' = results
    /\ events' = events

\* the call of the step aborted with this code and changed nothing
Rejected(code) == ~last'.ok /\ last'.code = code /\ SameWorld

\* C1: on a paused system every record_transaction, report_anomaly_score,
\* add_auditor, remove_auditor, update_threshold and update_model call aborts
\* with ESystemPaused and changes nothing, while pause_system, resume_system
\* and the read accessors succeed.
C1_PausedRejects ==
    /\ [](\A i \in Systems, c \in Caps : systems[i].is_paused =>
            /\ pause_system(World, i, c, Sender(i)).ok
            /\ resume_system(World, i, c, Sender(i)).ok
            /\ get_current_model(systems[i]).ok
            /\ ~is_system_operational(systems[i]))
    /\ [][\A i \in Systems : systems[i].is_paused /\ last'.sys = i =>
            /\ last'.op = "record_transaction" =>
                 \A tid \in TxIds, rs \in RiskScoreInputs :
                    RecordTransaction(i, tid, rs) => Rejected(ESystemPaused)
            /\ last'.op = "report_anomaly_score" =>
                 \A tid \in TxIds, f \in FeatureInputs, in \in ReportInputs :
                    ReportAnomalyScore(i, tid, f, in[1], in[2]) => Rejected(ESystemPaused)
            /\ last'.op = "add_auditor" =>
                 \A c \in Caps, a \in AuditorInputs :
                    AddAuditor(i, c, a) => Rejected(ESystemPaused)
            /\ last'.op = "remove_auditor" =>
                 \A c \in Caps, a \in AuditorInputs :
                    RemoveAuditor(i, c, a) => Rejected(ESystemPaused)
            /\ last'.op = "update_threshold" =>
                 \A c \in Caps, t \in ThresholdInputs :
                    UpdateThreshold(i, c, t) => Rejected(ESystemPaused)
            /\ last'.op = "update_model" =>
                 \A c \in Caps, h \in Hashes :
                    UpdateModel(i, c, h) => Rejected(ESystemPaused)
            /\ last'.op = "pause_system" =>
                 \A c \in Caps : PauseSystem(i, c) => last'.ok /\ systems'[i].is_paused
            /\ last'.op = "resume_system" =>
                 \A c \in Caps : ResumeSystem(i, c) => last'.ok /\ ~systems'[i].is_paused
       ]_vars

GatedOps ==
    {"record_transaction", "report_anomaly_score", "add_auditor", "remove_auditor",
     "update_threshold", "update_model"}

\* a gated call was just rejected on a paused system
C1_Witness ==
    /\ last.op = "update_model"
    /\ ~last.ok
    /\ last.code = ESystemPaused
    /\ systems[last.sys].is_paused

\* C2: a privileged call on systems[i] succeeds only with caps[i], the
\* capability created by the initialize call that created systems[i]; with
\* any other capability it is rejected and changes nothing.
C2_CapabilityOfSameInitialize ==
    [][\A i \in Systems, c \in Caps : c # i =>
        /\ \A a \in AuditorInputs :
              /\ AddAuditor(i, c, a) => ~last'.ok /\ SameWorld
              /\ RemoveAuditor(i, c, a) => ~last'.ok /\ SameWorld
        /\ \A t \in ThresholdInputs : UpdateThreshold(i, c, t) => ~last'.ok /\ SameWorld
        /\ \A h \in Hashes : UpdateModel(i, c, h) => ~last'.ok /\ SameWorld
        /\ PauseSystem(i, c) => ~last'.ok /\ SameWorld
        /\ ResumeSystem(i, c) => ~last'.ok /\ SameWorld
        /\ \A a \in Address : TransferAdmin(i, c, a) => ~last'.ok /\ SameWorld
    ]_vars

InRange(t) == MIN_THRESHOLD <= t /\ t <= MAX_THRESHOLD

\* C3: the anomaly_threshold of every SystemState lies in
\* MIN_THRESHOLD..MAX_THRESHOLD in every reachable state.
C3_ThresholdInRange ==
    \A i \in Systems : InRange(systems[i].anomaly_threshold)

\* update_threshold has just set a threshold to the upper limit
C3_Witness ==
    /\ last.op = "update_threshold"
    /\ last.ok
    /\ systems[last.sys].anomaly_threshold = MAX_THRESHOLD

\* C4: initialize succeeds exactly when its threshold is in
\* MIN_THRESHOLD..MAX_THRESHOLD and otherwise aborts with EInvalidThreshold,
\* creating no object and no event; update_threshold on a system that is not
\* paused succeeds exactly when the new threshold is in range, and otherwise
\* aborts with EInvalidThreshold and leaves anomaly_threshold as it was.
C4_ThresholdValidation ==
    /\ [](/\ \A in \in InitializeInputs :
               initialize(World, in[1], in[2], in[3], epoch).ok <=> InRange(in[2])
          /\ \A i \in Systems, c \in Caps, t \in ThresholdInputs :
               ~systems[i].is_paused =>
                   (update_threshold(World, i, c, t).ok <=> InRange(t)))
    /\ [][/\ last'.op = "initialize" =>
               \A in \in InitializeInputs :
                  Initialize(in[1], in[2], in[3]) =>
                     IF InRange(in[2])
                     THEN /\ last'.ok
                          /\ Len(systems') = Len(systems) + 1
                          /\ systems'[Len(systems')].anomaly_threshold = in[2]
                     ELSE Rejected(EInvalidThreshold)
          /\ last'.op = "update_threshold" =>
               \A i \in Systems, c \in Caps, t \in ThresholdInputs :
                  ~systems[i].is_paused /\ UpdateThreshold(i, c, t) =>
                     IF InRange(t)
                     THEN last'.ok /\ systems'[i].anomaly_threshold = t
                     ELSE /\ Rejected(EInvalidThreshold)
                          /\ systems'[i].anomaly_threshold = systems[i].anomaly_threshold
       ]_vars

\* an initialize call was just refused for its threshold: nothing exists
C4_Witness ==
    /\ last.op = "initialize"
    /\ ~last.ok
    /\ last.code = EInvalidThreshold
    /\ systems = <<>> /\ caps = <<>> /\ events = <<>>

\* t / 2 with truncating integer division, by its definition
Half(t) == CHOOSE q \in 0..t : 2 * q <= t /\ t < 2 * q + 2

\* the reference risk tier of the specification
RiskTier(score, t) ==
    IF score > t + Half(t) THEN 3
    ELSE IF score > t THEN 2
    ELSE IF score > Half(t) THEN 1
    ELSE 0

\* C5: for every score in 0..100 and threshold in MIN_THRESHOLD..MAX_THRESHOLD
\* the risk level the classifier computes is the reference tier, one of 0..3.
C5_RiskLevelIsReferenceTier ==
    \A k \in Results :
        /\ results[k].risk_level = RiskTier(results[k].anomaly_score,
                                            systems[1].anomaly_threshold)
        /\ results[k].risk_level \in 0..3

\* score 6 at threshold 11 is medium: 11 / 2 truncates to 5
C5_Witness ==
    /\ last.op = "report_anomaly_score" /\ last.ok
    /\ systems[1].anomaly_threshold = 11
    /\ results[1].anomaly_score = 6
    /\ results[1].risk_level = 1

\* C6: every successful call of a mutating entry function appends exactly one
\* event to the event stream.
C6_OneEventPerSuccessfulCall ==
    [][okCalls' = okCalls + 1 => Len(events') = Len(events) + 1]_vars

NoDuplicates(v) == \A j, k \in 1..Len(v) : v[j] = v[k] => j = k

\* C8: the auditor roster of every SystemState holds no identity twice and at
\* most MAX_AUDITORS identities.
C8_RosterBoundedAndUnique ==
    \A i \in Systems :
        /\ NoDuplicates(systems[i].auditors)
        /\ Len(systems[i].auditors) <= MAX_AUDITORS

\* add_auditor was just refused on a roster that is full
C8_Witness ==
    /\ last.op = "add_auditor"
    /\ ~last.ok
    /\ Len(systems[last.sys].auditors) = MAX_AUDITORS

\* C9: on a system that is not paused add_auditor aborts with
\* EMaxAuditorsReached when the roster holds MAX_AUDITORS identities and when
\* the identity is already in the roster, leaving the roster as it was;
\* otherwise it succeeds and the identity becomes the last roster element.
C9_AddAuditor ==
    /\ [](\A i \in Systems, c \in Caps, a \in AuditorInputs :
            ~systems[i].is_paused =>
               (add_auditor(World, i, c, a, Sender(i)).ok
                  <=> ~(Len(systems[i].auditors) >= MAX_AUDITORS
                        \/ Contains(systems[i].auditors, a))))
    /\ [][last'.op = "add_auditor" =>
            \A i \in Systems, c \in Caps, a \in AuditorInputs :
               LET roster == systems[i].auditors
                   refused == Len(roster) >= MAX_AUDITORS \/ Contains(roster, a)
               IN ~systems[i].is_paused /\ AddAuditor(i, c, a) =>
                     IF refused
                     THEN /\ Rejected(EMaxAuditorsReached)
                          /\ systems'[i].auditors = roster
                     ELSE /\ last'.ok
                          /\ systems'[i].auditors = Append(roster, a)
       ]_vars

\* add_auditor was just refused for an identity that is not in the full roster
C9_Witness ==
    /\ last.op = "add_auditor"
    /\ ~last.ok
    /\ last.code = EMaxAuditorsReached
    /\ ~systems[last.sys].is_paused
    /\ Len(systems[last.sys].auditors) = MAX_AUDITORS
    /\ ~Contains(systems[last.sys].auditors, last.args[1])

\* v without the elements equal to e, in the order of v
Without(v, e) == LET Keep(x) == x # e IN SelectSeq(v, Keep)

\* C10: on a system that is not paused remove_auditor aborts with ENotAuditor
\* and leaves the roster as it was when the identity is absent; when it is
\* present the call removes exactly that identity, keeps the order of the
\* others and emits AuditorRemoved.
C10_RemoveAuditor ==
    /\ [](\A i \in Systems, c \in Caps, a \in AuditorInputs :
            ~systems[i].is_paused =>
               (remove_auditor(World, i, c, a, Sender(i)).ok
                  <=> Contains(systems[i].auditors, a)))
    /\ [][last'.op = "remove_auditor" =>
            \A i \in Systems, c \in Caps, a \in AuditorInputs :
               LET roster == systems[i].auditors
               IN ~systems[i].is_paused /\ RemoveAuditor(i, c, a) =>
                     IF ~Contains(roster, a)
                     THEN /\ Rejected(ENotAuditor)
                          /\ systems'[i].auditors = roster
                     ELSE /\ last'.ok
                          /\ systems'[i].auditors = Without(roster, a)
                          /\ Len(systems'[i].auditors) = Len(roster) - 1
                          /\ events' = Append(events, [type |-> "AuditorRemoved",
                                                       auditor |-> a,
                                                       removed_by |-> Sender(i)])
       ]_vars

\* remove_auditor has just removed an identity from the middle of a roster
C10_Witness ==
    /\ last.op = "remove_auditor"
    /\ last.ok
    /\ last.args[1] = Filler(1)
    /\ Len(systems[last.sys].auditors) = MAX_AUDITORS - 2
    /\ systems[last.sys].auditors[1] = 11
    /\ systems[last.sys].auditors[2] = Filler(2)

\* the keys of a vec_map, in insertion order
Keys(m) == [k \in 1..Len(m) |-> m[k].key]

\* C11: a successful update_model raises current_model_version by exactly 1
\* and adds exactly the entry (new version -> new hash) to model_hashes;
\* current_model_version is at least 1 and no step lowers it, and no step
\* changes or removes the hash stored under a version registered before.
C11_ModelVersioning ==
    /\ [](\A i \in Systems :
            /\ systems[i].current_model_version >= 1
            /\ Keys(systems[i].model_hashes)
                  = [k \in 1..systems[i].current_model_version |-> k])
    /\ [][\A i \in Systems :
            LET old == systems[i]
                new == systems'[i]
            IN /\ new.current_model_version >= old.current_model_version
               /\ \A v \in 1..old.current_model_version :
                     /\ VecMapContains(new.model_hashes, v)
                     /\ VecMapGet(new.model_hashes, v) = VecMapGet(old.model_hashes, v)
               /\ last'.op = "update_model" =>
                     \A c \in Caps, h \in Hashes :
                        UpdateModel(i, c, h) /\ last'.ok =>
                           /\ new.current_model_version = old.current_model_version + 1
                           /\ new.model_hashes
                                 = Append(old.model_hashes,
                                          [key |-> old.current_model_version + 1,
                                           value |-> h])
       ]_vars

\* update_model has just registered a second hash next to the first
C11_Witness ==
    /\ last.op = "update_model"
    /\ last.ok
    /\ systems[last.sys].current_model_version = 2
    /\ Len(systems[last.sys].model_hashes) = 2
    /\ VecMapGet(systems[last.sys].model_hashes, 1) = "model_v1"
    /\ VecMapGet(systems[last.sys].model_hashes, 2) = "model_v2"

\* C12: current_model_version is a key of model_hashes in every reachable
\* state, and get_current_model returns current_model_version with the hash
\* given to initialize until an update_model succeeds, and from then on the
\* hash given to the latest successful update_model.
C12_CurrentModel ==
    /\ [](\A i \in Systems :
            /\ VecMapContains(systems[i].model_hashes, systems[i].current_model_version)
            /\ get_current_model(systems[i]).ok
            /\ get_current_model(systems[i]).version = systems[i].current_model_version)
    /\ [][/\ last'.op = "initialize" =>
               \A in \in InitializeInputs :
                  Initialize(in[1], in[2], in[3]) /\ last'.ok =>
                     /\ get_current_model(systems'[Len(systems')]).version = 1
                     /\ get_current_model(systems'[Len(systems')]).hash = in[3]
          /\ \A i \in Systems :
               IF last'.op = "update_model" /\ last'.sys = i
                  /\ okCalls' = okCalls + 1
               THEN /\ get_current_model(systems'[i]).hash = last'.args[1]
                    /\ get_current_model(systems'[i]).version
                          = get_current_model(systems[i]).version + 1
               ELSE get_current_model(systems'[i]) = get_current_model(systems[i])
       ]_vars

\* get_current_model returns the hash of the update_model call just made,
\* not the one given to initialize
C12_Witness ==
    /\ last.op = "update_model"
    /\ last.ok
    /\ last.args[1] = "model_v2"
    /\ get_current_model(systems[last.sys]) = [ok |-> TRUE, version |-> 2, hash |-> "model_v2"]
    /\ systems[last.sys].model_hashes[1].value = "model_v1"

\* C13: no step lowers transaction_count or anomaly_count; transaction_count
\* changes only by +1 in a successful record_transaction on that system and
\* anomaly_count only by +1 in a successful report_anomaly_score on that
\* system, each such call makes its change, and a call that aborts changes
\* neither counter.
C13_CountersMonotonic ==
    [][\A i \in Systems :
          LET tc == systems[i].transaction_count
              ac == systems[i].anomaly_count
              tc2 == systems'[i].transaction_count
              ac2 == systems'[i].anomaly_count
              called(op) == okCalls' = okCalls + 1 /\ last'.op = op /\ last'.sys = i
          IN /\ tc2 >= tc /\ ac2 >= ac
             /\ tc2 = (IF called("record_transaction") THEN tc + 1 ELSE tc)
             /\ ac2 = (IF called("report_anomaly_score") THEN ac + 1 ELSE ac)
             /\ ~last'.ok => tc2 = tc /\ ac2 = ac
    ]_vars

\* a second report has just been counted and the transactions have not moved
C13_Witness ==
    /\ last.op = "report_anomaly_score"
    /\ last.ok
    /\ systems[last.sys].anomaly_count = 2
    /\ systems[last.sys].transaction_count = 1

\* C14: every AnomalyResult has an anomaly_score of 0..100:
\* report_anomaly_score with a greater score creates no AnomalyResult.
C14_ScoreInRange ==
    \A k \in Results : results[k].anomaly_score \in 0..MAX_RISK_SCORE

\* C15: on a system that is not paused report_anomaly_score aborts with
\* EInvalidModelVersion exactly when model_version is greater than
\* current_model_version, and then creates no AnomalyResult and leaves
\* anomaly_count as it was.
C15_ModelVersionValidation ==
    /\ [](\A i \in Systems, tid \in TxIds, f \in FeatureInputs, in \in ReportInputs :
            LET r == report_anomaly_score(World, i, tid, f, in[1], in[2], epoch)
            IN ~systems[i].is_paused =>
                  /\ r.ok <=> ~(in[1] > systems[i].current_model_version)
                  /\ ~r.ok => r.code = EInvalidModelVersion)
    /\ [][last'.op = "report_anomaly_score" =>
            \A i \in Systems, tid \in TxIds, f \in FeatureInputs, in \in ReportInputs :
               ~systems[i].is_paused /\ ReportAnomalyScore(i, tid, f, in[1], in[2]) =>
                  IF in[1] > systems[i].current_model_version
                  THEN /\ Rejected(EInvalidModelVersion)
                       /\ Len(results') = Len(results)
                       /\ systems'[i].anomaly_count = systems[i].anomaly_count
                  ELSE /\ last'.ok
                       /\ Len(results') = Len(results) + 1
       ]_vars

\* a report for version 2 was just refused while version 1 is current
C15_Witness ==
    /\ last.op = "report_anomaly_score"
    /\ ~last.ok
    /\ last.code = EInvalidModelVersion
    /\ last.args[3] = 2
    /\ systems[last.sys].current_model_version = 1
    /\ ~systems[last.sys].is_paused

\* C16: record_transaction with a risk score above 100 aborts with
\* EInvalidRiskScore on a system that is not paused and with ESystemPaused on
\* a paused one, and leaves transaction_count as it was.
C16_RiskScoreValidation ==
    [][last'.op = "record_transaction" =>
          \A i \in Systems, tid \in TxIds, rs \in RiskScoreInputs :
             rs > MAX_RISK_SCORE /\ RecordTransaction(i, tid, rs) =>
                /\ Rejected(IF systems[i].is_paused THEN ESystemPaused
                                                   ELSE EInvalidRiskScore)
                /\ systems'[i].transaction_count = systems[i].transaction_count
    ]_vars

\* a risk score above 100 was just refused on a paused system, as paused
C16_Witness ==
    /\ last.op = "record_transaction"
    /\ ~last.ok
    /\ last.args[2] > MAX_RISK_SCORE
    /\ systems[last.sys].is_paused
    /\ last.code = ESystemPaused

\* the counts at which a window of MAX_REQUESTS_PER_WINDOW ends and begins
WindowEdges ==
    {w * MAX_REQUESTS_PER_WINDOW + d :
        w \in 0..((ABSOLUTE_LIMIT \div MAX_REQUESTS_PER_WINDOW) - 1),
        d \in {0, 1, MAX_REQUESTS_PER_WINDOW - 1}}

\* C17: transaction_count never exceeds ABSOLUTE_LIMIT: at the limit a
\* record_transaction call aborts with the rate limiter's code and leaves the
\* counter as it was, no step lowers the counter, and below the limit the
\* rate limiter rejects no call.
C17_AbsoluteCeiling ==
    /\ [](\A n \in WindowEdges : check_rate_limit([transaction_count |-> n]))
    /\ [](\A i \in Systems :
            LET tc == systems[i].transaction_count IN
            /\ tc <= ABSOLUTE_LIMIT
            /\ check_rate_limit(systems[i]) <=> tc < ABSOLUTE_LIMIT
            /\ \A tid \in TxIds, rs \in RiskScoreInputs :
                  LET r == record_transaction(World, i, tid, rs, epoch) IN
                  /\ tc = ABSOLUTE_LIMIT => ~r.ok
                  /\ tc = ABSOLUTE_LIMIT /\ ~systems[i].is_paused /\ rs <= MAX_RISK_SCORE
                        => r.code = ERateLimit
                  /\ tc < ABSOLUTE_LIMIT => r.code # ERateLimit)
    /\ [][\A i \in Systems :
            /\ systems'[i].transaction_count >= systems[i].transaction_count
            /\ last'.op = "record_transaction" =>
                 \A tid \in TxIds, rs \in RiskScoreInputs :
                    systems[i].transaction_count = ABSOLUTE_LIMIT
                    /\ RecordTransaction(i, tid, rs) =>
                       /\ ~last'.ok /\ SameWorld
                       /\ systems'[i].transaction_count = ABSOLUTE_LIMIT
       ]_vars

\* the call that took the counter to the limit succeeded and the next
\* record_transaction was just refused by the rate limiter
C17_Witness ==
    /\ last.op = "record_transaction"
    /\ ~last.ok
    /\ last.code = ERateLimit
    /\ systems[last.sys].transaction_count = ABSOLUTE_LIMIT
    /\ Len(events) = 2
    /\ events[2].type = "TransactionRecorded"

\* C18: a system starts active; pause_system always succeeds, leaves the
\* system paused and emits SystemPaused, also when it was paused already;
\* resume_system always succeeds, leaves it active and emits SystemResumed;
\* neither changes another field of the SystemState, and
\* is_system_operational is true exactly when the system is active.
C18_PauseMachine ==
    /\ [](\A i \in Systems, c \in Caps :
            /\ pause_system(World, i, c, Sender(i)).ok
            /\ resume_system(World, i, c, Sender(i)).ok
            /\ is_system_operational(systems[i]) <=> systems[i].is_paused = FALSE)
    /\ [][/\ last'.op = "initialize" /\ Len(systems') = Len(systems) + 1 =>
               systems'[Len(systems')].is_paused = FALSE
          /\ last'.op = "pause_system" =>
               \A i \in Systems, c \in Caps :
                  PauseSystem(i, c) =>
                     /\ last'.ok
                     /\ systems' = [systems EXCEPT ![i].is_paused = TRUE]
                     /\ ~is_system_operational(systems'[i])
                     /\ events' = Append(events, [type |-> "SystemPaused",
                                                  paused_by |-> Sender(i)])
                     /\ caps' = caps /\ results' = results
          /\ last'.op = "resume_system" =>
               \A i \in Systems, c \in Caps :
                  ResumeSystem(i, c) =>
                     /\ last'.ok
                     /\ systems' = [systems EXCEPT ![i].is_paused = FALSE]
                     /\ is_system_operational(systems'[i])
                     /\ events' = Append(events, [type |-> "SystemResumed",
                                                  resumed_by |-> Sender(i)])
                     /\ caps' = caps /\ results' = results
       ]_vars

\* pause_system has just been called on a system that was paused already:
\* the stream ends with two SystemPaused events
C18_Witness ==
    /\ last.op = "pause_system"
    /\ last.ok
    /\ systems[last.sys].is_paused
    /\ Len(events) >= 2
    /\ events[Len(events)].type = "SystemPaused"
    /\ events[Len(events) - 1].type = "SystemPaused"

C20_SingleDeployment ==
    /\ Len(systems) <= 1
    /\ Len(caps) <= 1

\* C21: a successful report_anomaly_score creates exactly one AnomalyResult
\* holding the call's transaction_id, features, model_version and
\* anomaly_score, the reference tier of the score at the threshold of the
\* call, reviewed = false and no reviewer; it adds 1 to anomaly_count and
\* emits one AnomalyDetected event with the same transaction_id,
\* anomaly_score, risk_level and model_version.
C21_ReportResult ==
    [][last'.op = "report_anomaly_score" =>
          \A i \in Systems, tid \in TxIds, f \in FeatureInputs, in \in ReportInputs :
             ReportAnomalyScore(i, tid, f, in[1], in[2]) /\ last'.ok =>
                LET tier == RiskTier(in[2], systems[i].anomaly_threshold)
                    r == results'[Len(results')]
                IN /\ Len(results') = Len(results) + 1
                   /\ SubSeq(results', 1, Len(results)) = results
                   /\ r.transaction_id = tid
                   /\ r.features = f
                   /\ r.model_version = in[1]
                   /\ r.anomaly_score = in[2]
                   /\ r.risk_level = tier
                   /\ r.reviewed = FALSE
                   /\ r.reviewed_by = <<>>
                   /\ systems'[i].anomaly_count = systems[i].anomaly_count + 1
                   /\ events' = Append(events, [type |-> "AnomalyDetected",
                                                transaction_id |-> tid,
                                                anomaly_score |-> in[2],
                                                risk_level |-> tier,
                                                model_version |-> in[1]])
    ]_vars

\* a report for model version 0 with score 90 at threshold 85 has just
\* become a second, high-risk result
C21_Witness ==
    /\ last.op = "report_anomaly_score"
    /\ last.ok
    /\ Len(results) = 2
    /\ systems[last.sys].anomaly_threshold = 85
    /\ results[2].model_version = 0
    /\ results[2].anomaly_score = 90
    /\ results[2].risk_level = 2
    /\ events[Len(events)].type = "AnomalyDetected"

\* C22: the TransactionRecorded event of a successful record_transaction
\* carries the transaction_id and the risk_score given to the call.
C22_EventCarriesArguments ==
    last.op = "record_transaction" /\ last.ok =>
        /\ events[Len(events)].type = "TransactionRecorded"
        /\ events[Len(events)].transaction_id = last.args[1]
        /\ events[Len(events)].risk_score = last.args[2]

\* C23: an AnomalyResult is created with the owner that the admin field
\* names when report_anomaly_score runs, and no step changes the owner of a
\* result that exists: after transfer_admin the earlier results keep their
\* owner and later results go to the new admin.
C23_ResultOwner ==
    [][/\ \A k \in Results : results'[k].owner = results[k].owner
       /\ last'.op = "report_anomaly_score" =>
            \A i \in Systems, tid \in TxIds, f \in FeatureInputs, in \in ReportInputs :
               ReportAnomalyScore(i, tid, f, in[1], in[2]) /\ last'.ok =>
                  /\ Len(results') = Len(results) + 1
                  /\ results'[Len(results')].owner = systems[i].admin
       /\ last'.op = "transfer_admin" =>
            \A i \in Systems, c \in Caps, a \in Address :
               TransferAdmin(i, c, a) => results' = results
    ]_vars

\* the result made before the transfer is owned by @0xA, the one made after
\* it by the new admin @0xB
C23_Witness ==
    /\ last.op = "report_anomaly_score"
    /\ last.ok
    /\ Len(results) = 2
    /\ results[1].owner = 10
    /\ results[2].owner = 11
    /\ systems[last.sys].admin = 11
    /\ systems[last.sys].owner = 10

\* C24: an AnomalyResult starts with reviewed = false and no reviewer;
\* review_anomaly(result, reviewer) sets reviewed = true and
\* reviewed_by = reviewer; reviewed never returns to false, and in every
\* state a reviewer is recorded exactly when reviewed is true.
C24_ReviewLifecycle ==
    /\ [](\A k \in Results :
            /\ results[k].reviewed <=> results[k].reviewed_by # <<>>
            /\ Len(results[k].reviewed_by) <= 1)
    /\ [][/\ \A k \in Results : results[k].reviewed => results'[k].reviewed
          /\ \A k \in (1..Len(results')) \ Results :
               ~results'[k].reviewed /\ results'[k].reviewed_by = <<>>
          /\ last'.op = "review_anomaly" =>
               \A k \in Results, reviewer \in ReviewerInputs :
                  ReviewAnomaly(k, reviewer) =>
                     /\ last'.ok
                     /\ results'[k].reviewed
                     /\ results'[k].reviewed_by = <<reviewer>>
       ]_vars

\* review_anomaly has just recorded @0xB as the reviewer of a result
C24_Witness ==
    /\ last.op = "review_anomaly"
    /\ last.args[2] = 11
    /\ results[last.args[1]].reviewed
    /\ results[last.args[1]].reviewed_by = <<11>>

\* C25: a successful record_transaction adds 1 to transaction_count, leaves
\* every other field of the SystemState and every other object as it was and
\* creates no AnomalyResult.
C25_RecordTransactionFrame ==
    [][last'.op = "record_transaction" =>
          \A i \in Systems, tid \in TxIds, rs \in RiskScoreInputs :
             RecordTransaction(i, tid, rs) /\ last'.ok =>
                /\ systems' = [systems EXCEPT
                                  ![i].transaction_count = systems[i].transaction_count + 1]
                /\ results' = results
                /\ caps' = caps
    ]_vars

\* a second transaction has just been recorded next to the one result and
\* the roster of the scenario
C25_Witness ==
    /\ last.op = "record_transaction"
    /\ last.ok
    /\ systems[last.sys].transaction_count = 2
    /\ systems[last.sys].anomaly_count = 1
    /\ Len(results) = 1
    /\ Len(systems[last.sys].auditors) = MAX_AUDITORS - 1

\* C26: transfer_admin(state, cap, new_admin) always succeeds, also on a
\* paused system, sets admin = new_admin and changes nothing else; no other
\* step changes admin, and no step changes created_at.
C26_AdminField ==
    [][/\ \A i \in Systems :
            /\ systems'[i].created_at = systems[i].created_at
            /\ systems'[i].admin # systems[i].admin =>
                  /\ last'.op = "transfer_admin"
                  /\ last'.sys = i
                  /\ okCalls' = okCalls + 1
       /\ last'.op = "transfer_admin" =>
            \A i \in Systems, c \in Caps, a \in Address :
               TransferAdmin(i, c, a) =>
                  /\ last'.ok
                  /\ systems' = [systems EXCEPT ![i].admin = a]
                  /\ caps' = caps
                  /\ results' = results
                  /\ events' = events
    ]_vars

\* transfer_admin has just named @0xB admin of a paused system
C26_Witness ==
    /\ last.op = "transfer_admin"
    /\ last.ok
    /\ last.args[1] = 11
    /\ systems[last.sys].is_paused
    /\ systems[last.sys].admin = 11

\* who sends a transaction on systems[i] with caps[c]: the owner of both
CanCall(who, i, c) == systems[i].owner = who /\ caps[c].owner = who

C28_ReviewUnchecked ==
    [][last'.op = "review_anomaly" =>
          \A k \in Results, reviewer \in ReviewerInputs :
             ReviewAnomaly(k, reviewer) =>
                /\ last'.ok
                /\ results' = [results EXCEPT ![k].reviewed = TRUE,
                                              ![k].reviewed_by = <<reviewer>>]
                /\ systems' = systems
                /\ caps' = caps
                /\ events' = events
    ]_vars

\* on a paused system @0xC, neither admin nor auditor, has just been
\* recorded as the reviewer of a result
C28_Witness ==
    /\ last.op = "review_anomaly"
    /\ last.ok
    /\ last.args[2] = 12
    /\ results[last.args[1]].reviewed_by = <<12>>
    /\ systems[1].is_paused
    /\ systems[1].admin # 12
    /\ ~is_auditor(systems[1], 12)

\* C29: no step changes the transaction_id, features, model_version,
\* anomaly_score, risk_level or timestamp of an AnomalyResult that exists,
\* update_threshold and update_model included.
C29_ResultImmutable ==
    [][\A k \in Results :
          /\ results'[k].transaction_id = results[k].transaction_id
          /\ results'[k].features = results[k].features
          /\ results'[k].model_version = results[k].model_version
          /\ results'[k].anomaly_score = results[k].anomaly_score
          /\ results'[k].risk_level = results[k].risk_level
          /\ results'[k].timestamp = results[k].timestamp
    ]_vars

\* update_threshold has just raised the threshold to a value at which the
\* score of the existing high-risk result would be low risk
C29_Witness ==
    /\ last.op = "update_threshold"
    /\ last.ok
    /\ systems[last.sys].anomaly_threshold = MAX_THRESHOLD
    /\ Len(results) = 1
    /\ results[1].risk_level = 2
    /\ calculate_risk_level(results[1].anomaly_score, MAX_THRESHOLD) = 0

\* the identities asked about
Identities == AuditorInputs \cup {Filler(2)}

\* C30: is_auditor(state, x) is true exactly when x was added by a successful
\* add_auditor and not removed by a later successful remove_auditor;
\* get_auditors is the roster in insertion order.
C30_AuditorAccessors ==
    /\ [](\A i \in Systems, x \in Identities :
            is_auditor(systems[i], x)
               <=> x \in {get_auditors(systems[i])[k] :
                             k \in 1..Len(get_auditors(systems[i]))})
    /\ [][/\ \A i \in (1..Len(systems')) \ Systems :
               /\ get_auditors(systems'[i]) = <<>>
               /\ \A x \in Identities : ~is_auditor(systems'[i], x)
          /\ \A i \in Systems :
               LET called(op) == okCalls' = okCalls + 1 /\ last'.op = op /\ last'.sys = i
                   added == called("add_auditor")
                   removed == called("remove_auditor")
               IN /\ get_auditors(systems'[i]) =
                       (IF added THEN Append(get_auditors(systems[i]), last'.args[1])
                        ELSE IF removed THEN Without(get_auditors(systems[i]), last'.args[1])
                        ELSE get_auditors(systems[i]))
                  /\ \A x \in Identities :
                       is_auditor(systems'[i], x) =
                          (IF added /\ last'.args[1] = x THEN TRUE
                           ELSE IF removed /\ last'.args[1] = x THEN FALSE
                           ELSE is_auditor(systems[i], x))
       ]_vars

\* the first auditor @0xB has just been removed: it is no auditor any more,
\* the next one heads the roster
C30_Witness ==
    /\ last.op = "remove_auditor"
    /\ last.ok
    /\ last.args[1] = 11
    /\ ~is_auditor(systems[last.sys], 11)
    /\ is_auditor(systems[last.sys], Filler(1))
    /\ get_auditors(systems[last.sys])[1] = Filler(1)

\* C31: get_system_stats returns transaction_count, anomaly_count,
\* anomaly_threshold, current_model_version and the roster length of the
\* state it is given, on a paused system as on an active one.
C31_SystemStats ==
    \A i \in Systems :
        get_system_stats(systems[i]) =
            [total_transactions |-> systems[i].transaction_count,
             total_anomalies |-> systems[i].anomaly_count,
             current_threshold |-> systems[i].anomaly_threshold,
             model_version |-> systems[i].current_model_version,
             auditor_count |-> Len(systems[i].auditors)]

\* the statistics of a system with one transaction, one anomaly and 49
\* auditors, read after pause_system
C31_Witness ==
    /\ last.op = "pause_system"
    /\ last.ok
    /\ systems[last.sys].is_paused
    /\ get_system_stats(systems[last.sys]) =
          [total_transactions |-> 1, total_anomalies |-> 1, current_threshold |-> 85,
           model_version |-> 1, auditor_count |-> MAX_AUDITORS - 1]

\* the number of events of one type in the stream
CountEvents(type) == Cardinality({k \in 1..Len(events) : events[k].type = type})

RECURSIVE SumTo(_, _)
\* f[1] + ... + f[n]
SumTo(f, n) == IF n = 0 THEN 0 ELSE f[n] + SumTo(f, n - 1)

\* C36: anomaly_count (over the SystemStates) equals the number of
\* AnomalyResults created and the number of AnomalyDetected events, and
\* transaction_count equals the number of TransactionRecorded events.
C36_CountersMatchLog ==
    LET anomalies == SumTo([i \in Systems |-> systems[i].anomaly_count], Len(systems))
        transactions == SumTo([i \in Systems |-> systems[i].transaction_count], Len(systems))
    IN /\ anomalies = Len(results)
       /\ anomalies = CountEvents("AnomalyDetected")
       /\ transactions = CountEvents("TransactionRecorded")

\* a second report has just been counted, stored and logged
C36_Witness ==
    /\ last.op = "report_anomaly_score"
    /\ last.ok
    /\ systems[last.sys].anomaly_count = 2
    /\ Len(results) = 2
    /\ CountEvents("AnomalyDetected") = 2
    /\ CountEvents("TransactionRecorded") = 1

\* C37: the model_version of every AnomalyResult is a key of model_hashes:
\* a version that was never registered, such as 0, is not accepted.
C37_ResultVersionRegistered ==
    \A k \in Results :
        \E i \in Systems : VecMapContains(systems[i].model_hashes, results[k].model_version)

\* C38: review_anomaly on a result that is reviewed already succeeds and
\* replaces reviewed_by with the new reviewer.
C38_ReviewReplacesReviewer ==
    [][last'.op = "review_anomaly" =>
          \A k \in Results, reviewer \in ReviewerInputs :
             results[k].reviewed /\ ReviewAnomaly(k, reviewer) =>
                /\ last'.ok
                /\ results'[k].reviewed
                /\ results'[k].reviewed_by = <<reviewer>>
    ]_vars

\* the result @0xA reviewed first now names @0xB as its reviewer
C38_Witness ==
    /\ last.op = "review_anomaly"
    /\ last.args = <<1, 11>>
    /\ results[1].reviewed
    /\ results[1].reviewed_by = <<11>>

\* the child processes of the server that are running
AliveChildren ==
    (IF server.pythonProcess.state = "alive" THEN 1 ELSE 0) + server.orphans.alive

C33_SpawnsBounded == server.spawnCalls <= MAX_RESTART_ATTEMPTS

\* C34: at most one AI engine child process of the server is alive.
C34_OneChildAlive == AliveChildren <= 1

\* C35: GET /health and GET /ai/status report 'running' only when the child
\* process pythonProcess refers to is alive.
C35_RunningMeansAlive ==
    /\ server.handler \in {"/health", "/ai/status"}
    /\ server.response.ai_engine = "running"
    => server.pythonProcess.state = "alive"

====
